---- MODULE Spec2Model ----
(***************************************************************************)
(* Model of src/main.cpp: a black/white raster image is scanned on a       *)
(* 5-pixel grid, every white sample is flood-filled (BFS) and classified   *)
(* (IsIntersection), and the raw candidates are deduplicated and counted.  *)
(*                                                                         *)
(* A Pixel is a record [x, y]; x indexes rows and y columns, 0-based as in *)
(* the source.  is_white_ is a sequence of rows, each a sequence of        *)
(* BOOLEAN, so is_white_[x][y] of the source is is_white_[x + 1][y + 1].   *)
(***************************************************************************)
EXTENDS Integers, Sequences, FiniteSets

VARIABLES
    is_white_,                \* Image::is_white_
    pc,                       \* position of the running code
    i, j,                     \* loop cursors of main (scan, then deduplication)
    potential_intersections,  \* main: raw candidates
    is_bad_pixel,             \* main: suppression flags
    intersections_count,      \* main: the count
    cout,                     \* what main has printed
    start,                    \* argument of IsIntersection / BFS
    queue, used, black_pixels, white, black,   \* locals of BFS
    popped,                   \* the pixels BFS has taken from the queue, in order
    external_pixels, result,  \* IsIntersection: the four pixels it compares, its return value
    pixel, neighbours         \* argument and return value of a GetNeighbours call

vars == <<is_white_, pc, i, j, potential_intersections, is_bad_pixel,
          intersections_count, cout, start, queue, used, black_pixels,
          white, black, popped, external_pixels, result, pixel, neighbours>>

scanVars == <<i, j, potential_intersections, is_bad_pixel, intersections_count, cout>>
fillVars == <<start, queue, used, black_pixels, white, black, popped>>
isectVars == <<external_pixels, result>>
nbVars == <<pixel, neighbours>>

----------------------------------------------------------------------------
(* Program constants *)

INT_MAX == 2147483647
INT_MIN == -INT_MAX - 1
\* a stride other than STEP
ShortStep == 5 - 1
STEP == 5
ROW_JUMP == 20
MIN_ITERATION_COUNT == 200
MAX_ITERATION_COUNT == 400
SIMILAR_DIST == 5

----------------------------------------------------------------------------
(* Pixel and Image *)

Pixel(x, y) == [x |-> x, y |-> y]

Abs(a) == IF a < 0 THEN -a ELSE a

\* static Image::IsWhite(uchar color)
IsWhiteColor(color) == color = 0

\* Image::Image(cv::Mat): one flag per sample of the decoded grid
Image(mat) ==
    [r \in 1..Len(mat) |-> [c \in 1..Len(mat[r]) |-> IsWhiteColor(mat[r][c])]]

GetRows == Len(is_white_)

\* is_white_[0].size(): only defined when there is a first row
GetColumns == Len(is_white_[1])

\* IsCorrect with the row test off by one
IsCorrect_OffByOne(x, y) ==
    /\ x >= 0
    /\ x <= Len(is_white_)
    /\ y >= 0
    /\ y < Len(is_white_[1])

IsCorrect(x, y) ==
    /\ x >= 0
    /\ x < Len(is_white_)
    /\ y >= 0
    /\ y < Len(is_white_[1])

\* Image::IsWhite(x, y) reads is_white_[x][y] unchecked.  An index outside the
\* vectors is undefined behaviour; `garbage` is the value such a read yields.
IsWhite(x, y, garbage) ==
    IF IsCorrect(x, y) THEN is_white_[x + 1][y + 1] ELSE garbage

GetNeighbours(x, y) ==
    LET n1 == IF IsCorrect(x + 1, y) THEN <<Pixel(x + 1, y)>> ELSE <<>>
        n2 == IF IsCorrect(x, y + 1) THEN Append(n1, Pixel(x, y + 1)) ELSE n1
        n3 == IF IsCorrect(x - 1, y) THEN Append(n2, Pixel(x - 1, y)) ELSE n2
        n4 == IF IsCorrect(x, y - 1) THEN Append(n3, Pixel(x, y - 1)) ELSE n3
    IN  n4

----------------------------------------------------------------------------
(* BFS.  The locals of one call are kept in a record st.                   *)

BFSState ==
    [queue |-> queue, used |-> used, black_pixels |-> black_pixels,
     white |-> white, black |-> black, popped |-> popped]

\* lines 95-103: the state before the first test of the loop condition
BFSEntry(s) ==
    [queue |-> <<s>>, used |-> {s}, black_pixels |-> <<>>, white |-> 0, black |-> 1,
     popped |-> <<>>]

\* the loop condition, lines 105-106 (size_t division)
BFSContinue(st) ==
    /\ st.queue # <<>>
    /\ \/ st.white \div st.black = 0
       \/ st.white + st.black < MIN_ITERATION_COUNT
    /\ st.black + st.white < MAX_ITERATION_COUNT

\* RecordPixel with the colour test inverted
RecordPixel_Inverted(st, next, garbage) ==
    IF IsWhite(next.x, next.y, garbage)
    THEN [st EXCEPT !.black_pixels = Append(@, next)]
    ELSE st

\* lines 109-111
RecordPixel(st, next, garbage) ==
    IF ~IsWhite(next.x, next.y, garbage)
    THEN [st EXCEPT !.black_pixels = Append(@, next)]
    ELSE st

\* PushNeighbours without the store into used
RECURSIVE PushNeighbours_NoMark(_, _, _)
PushNeighbours_NoMark(nbs, k, st) ==
    IF k > Len(nbs) THEN st
    ELSE PushNeighbours_NoMark(nbs, k + 1,
            IF nbs[k] \notin st.used
            THEN [st EXCEPT !.queue = Append(@, nbs[k])]
            ELSE st)

\* lines 112-117: the neighbours in order, each pushed and marked unless marked
RECURSIVE PushNeighbours(_, _, _)
PushNeighbours(nbs, k, st) ==
    IF k > Len(nbs) THEN st
    ELSE PushNeighbours(nbs, k + 1,
            IF nbs[k] \notin st.used
            THEN [st EXCEPT !.queue = Append(@, nbs[k]), !.used = @ \cup {nbs[k]}]
            ELSE st)

\* one iteration of the loop, lines 107-117
BFSBody(st, garbage) ==
    LET next == Head(st.queue)
        taken == [st EXCEPT !.queue = Tail(@), !.popped = Append(@, next)]
    IN  PushNeighbours(GetNeighbours(next.x, next.y), 1,
                       RecordPixel(taken, next, garbage))

\* up to n >= 1 iterations of the loop: the condition is tested before each one
RECURSIVE BFSIterate(_, _, _)
BFSIterate(st, garbage, n) ==
    IF ~BFSContinue(st) THEN st
    ELSE IF n = 1 THEN BFSBody(st, garbage)
    ELSE BFSIterate(BFSIterate(st, garbage, n \div 2), garbage, n - (n \div 2))

\* the whole loop, lines 105-118, taken 64 iterations at a time (the blocks only
\* keep the evaluation shallow; the iterations are those of the loop, in order)
RECURSIVE BFSRun(_, _)
BFSRun(st, garbage) ==
    IF BFSContinue(st) THEN BFSRun(BFSIterate(st, garbage, 64), garbage) ELSE st

\* BFS(start, image, black_pixels): the locals when the call returns
BFS(s, garbage) == BFSRun(BFSEntry(s), garbage)

----------------------------------------------------------------------------
(* Extremal pixels and the classifier *)

RECURSIVE LeftestFrom(_, _, _, _)
LeftestFrom(pixels, k, best_pixel, min_x) ==
    IF k > Len(pixels) THEN best_pixel
    ELSE IF pixels[k].x < min_x
         THEN LeftestFrom(pixels, k + 1, pixels[k], pixels[k].x)
         ELSE LeftestFrom(pixels, k + 1, best_pixel, min_x)

GetLeftest(pixels) == LeftestFrom(pixels, 1, Pixel(0, 0), INT_MAX)

RECURSIVE RightestFrom(_, _, _, _)
RightestFrom(pixels, k, best_pixel, max_x) ==
    IF k > Len(pixels) THEN best_pixel
    ELSE IF max_x < pixels[k].x
         THEN RightestFrom(pixels, k + 1, pixels[k], pixels[k].x)
         ELSE RightestFrom(pixels, k + 1, best_pixel, max_x)

GetRightest(pixels) == RightestFrom(pixels, 1, Pixel(0, 0), INT_MIN)

RECURSIVE LowestFrom(_, _, _, _)
LowestFrom(pixels, k, best_pixel, min_y) ==
    IF k > Len(pixels) THEN best_pixel
    ELSE IF pixels[k].y < min_y
         THEN LowestFrom(pixels, k + 1, pixels[k], pixels[k].y)
         ELSE LowestFrom(pixels, k + 1, best_pixel, min_y)

\* the source starts min_y at INT_MIN (line 148)
GetLowest(pixels) == LowestFrom(pixels, 1, Pixel(0, 0), INT_MIN)

RECURSIVE HighestFrom(_, _, _, _)
HighestFrom(pixels, k, best_pixel, max_y) ==
    IF k > Len(pixels) THEN best_pixel
    ELSE IF max_y < pixels[k].y
         THEN HighestFrom(pixels, k + 1, pixels[k], pixels[k].y)
         ELSE HighestFrom(pixels, k + 1, best_pixel, max_y)

\* GetHighest with max_y started at INT_MAX, as GetLowest starts min_y at INT_MIN
GetHighest_MaxInit(pixels) == HighestFrom(pixels, 1, Pixel(0, 0), INT_MAX)

GetHighest(pixels) == HighestFrom(pixels, 1, Pixel(0, 0), INT_MIN)

\* AreSimilar(int, int) with the comparison reversed
AreSimilarInt_Flipped(a, b) == Abs(a - b) > SIMILAR_DIST

\* AreSimilar(int, int)
AreSimilarInt(a, b) == Abs(a - b) < SIMILAR_DIST

\* AreSimilar(Pixel, Pixel) with one axis enough
AreSimilar_Either(a, b) == AreSimilarInt(a.x, b.x) \/ AreSimilarInt(a.y, b.y)

\* AreSimilar(Pixel, Pixel)
AreSimilar(a, b) == AreSimilarInt(a.x, b.x) /\ AreSimilarInt(a.y, b.y)

\* lines 182-191
ExternalPixels(pixels) ==
    <<GetLeftest(pixels), GetRightest(pixels), GetLowest(pixels), GetHighest(pixels)>>

\* lines 193-200: false at the first similar pair, true when there is none
NoSimilarPair(ext) ==
    \A a \in 1..4 : \A b \in (a + 1)..4 : ~AreSimilar(ext[a], ext[b])

----------------------------------------------------------------------------
(* Inputs: decoded grids (cv::Mat of 8-bit samples) *)

InkColors == {1, 255}

Pixels(rows, cols) == {Pixel(x, y) : x \in 0..(rows - 1), y \in 0..(cols - 1)}

\* a rows x cols grid whose samples are 0 except `color` at the pixels of ink
Grid(rows, cols, ink, color) ==
    [r \in 1..rows |-> [c \in 1..cols |->
        IF Pixel(r - 1, c - 1) \in ink THEN color ELSE 0]]

AllPixels == IF GetRows = 0 THEN {} ELSE Pixels(GetRows, GetColumns)

\* the pixels whose sample is not 0
Strokes == {p \in AllPixels : ~is_white_[p.x + 1][p.y + 1]}

\* what an unchecked read at p can yield
Garbage(p) == IF IsCorrect(p.x, p.y) THEN {FALSE} ELSE BOOLEAN

NoFill ==
    /\ start = Pixel(0, 0)
    /\ queue = <<>>
    /\ used = {}
    /\ black_pixels = <<>>
    /\ white = 0
    /\ black = 1
    /\ popped = <<>>

NoIsect ==
    /\ external_pixels = <<>>
    /\ result = FALSE

NoScan ==
    /\ i = 0
    /\ j = 0
    /\ potential_intersections = <<>>
    /\ is_bad_pixel = <<>>
    /\ intersections_count = 0
    /\ cout = <<>>

NoNb ==
    /\ pixel = Pixel(0, 0)
    /\ neighbours = <<>>

----------------------------------------------------------------------------
(* GetNeighbours on its own *)

MaxNbRows == 4
MaxNbCols == 4

InitNb ==
    /\ \E r \in 1..MaxNbRows, c \in 1..MaxNbCols :
          /\ is_white_ = Image(Grid(r, c, {}, 0))
          /\ pixel \in Pixels(r, c)
    /\ neighbours = <<>>
    /\ pc = "nb"
    /\ NoScan /\ NoFill /\ NoIsect

CallGetNeighbours ==
    /\ pc = "nb"
    /\ neighbours' = GetNeighbours(pixel.x, pixel.y)
    /\ pc' = "nb_done"
    /\ UNCHANGED <<is_white_, pixel, scanVars, fillVars, isectVars>>

NextNb == CallGetNeighbours

SpecNb == InitNb /\ [][NextNb]_vars

----------------------------------------------------------------------------
(* BFS, one loop iteration per step, followed by the classification *)

MaxFillRows == 2
MaxFillCols == 3
BigSide == 21

BigInk ==
    {{}, {Pixel(0, 0), Pixel(BigSide - 1, BigSide - 1)},
     {Pixel(x, BigSide \div 2) : x \in 0..(BigSide - 1)}}

SetFill(st) ==
    /\ queue' = st.queue
    /\ used' = st.used
    /\ black_pixels' = st.black_pixels
    /\ white' = st.white
    /\ black' = st.black
    /\ popped' = st.popped

\* every grid up to MaxFillRows x MaxFillCols with every seed, and square grids
\* of more than MAX_ITERATION_COUNT pixels
InitFill ==
    /\ \/ \E r \in 1..MaxFillRows, c \in 1..MaxFillCols :
          \E ink \in SUBSET Pixels(r, c), color \in InkColors :
            /\ is_white_ = Image(Grid(r, c, ink, color))
            /\ start \in Pixels(r, c)
       \/ \E ink \in BigInk, color \in InkColors :
            /\ is_white_ = Image(Grid(BigSide, BigSide, ink, color))
            /\ start \in {Pixel(0, 1), Pixel(BigSide \div 2, BigSide \div 2)}
    /\ pc = "bfs"
    /\ queue = BFSEntry(start).queue
    /\ used = BFSEntry(start).used
    /\ black_pixels = BFSEntry(start).black_pixels
    /\ white = BFSEntry(start).white
    /\ black = BFSEntry(start).black
    /\ popped = BFSEntry(start).popped
    /\ NoScan /\ NoIsect /\ NoNb

BFSLoop ==
    /\ pc = "bfs"
    /\ BFSContinue(BFSState)
    /\ \E g \in Garbage(Head(queue)) : SetFill(BFSBody(BFSState, g))
    /\ UNCHANGED <<is_white_, pc, start, scanVars, isectVars, nbVars>>

\* IsIntersection after its BFS call, lines 182-200
Classify ==
    /\ pc = "bfs"
    /\ ~BFSContinue(BFSState)
    /\ external_pixels' = ExternalPixels(black_pixels)
    /\ result' = NoSimilarPair(external_pixels')
    /\ pc' = "returned"
    /\ UNCHANGED <<is_white_, scanVars, fillVars, nbVars>>

NextFill == BFSLoop \/ Classify

SpecFill == InitFill /\ [][NextFill]_vars

----------------------------------------------------------------------------
(* IsIntersection as one call *)

\* IsIntersection(s, image): BFS, then the classification of its output
IsIntersection(s, garbage) ==
    /\ start' = s
    /\ SetFill(BFS(s, garbage))
    /\ external_pixels' = ExternalPixels(black_pixels')
    /\ result' = NoSimilarPair(external_pixels')

CallIsIntersection ==
    /\ pc = "call"
    /\ \E g \in Garbage(start) : IsIntersection(start, g)
    /\ pc' = "returned"
    /\ UNCHANGED <<is_white_, scanVars, nbVars>>

NextCall == CallIsIntersection

\* Images with a centred "+": a horizontal and a vertical bar through the centre,
\* arms of 15 pixels or more, each bar 1 to 3 pixels thick.
ArmSlack == 0
MaxMargin == 0
NearDist == 1

Bar(c, t) == (c - ((t - 1) \div 2))..(c + (t \div 2))

PlusInk(c, a, th, tv) ==
    {Pixel(x, y) : x \in Bar(c, th), y \in (c - a)..(c + a)}
      \cup {Pixel(x, y) : x \in (c - a)..(c + a), y \in Bar(c, tv)}

InitPlus ==
    /\ \E a \in 15..(15 + ArmSlack), m \in 0..MaxMargin, th \in 1..3, tv \in 1..3 :
        \E color \in InkColors :
          LET c == a + m
              n == 2 * c + 1
          IN  /\ is_white_ = Image(Grid(n, n, PlusInk(c, a, th, tv), color))
              /\ start \in {p \in Pixels(n, n) \ PlusInk(c, a, th, tv) :
                              /\ Abs(p.x - c) <= 1 + NearDist
                              /\ Abs(p.y - c) <= 1 + NearDist}
    /\ pc = "call"
    /\ queue = <<>> /\ used = {} /\ black_pixels = <<>>
    /\ white = 0 /\ black = 1 /\ popped = <<>>
    /\ NoScan /\ NoIsect /\ NoNb

SpecPlus == InitPlus /\ [][NextCall]_vars

\* Images with one straight segment, one pixel thick, horizontal or vertical,
\* of any length and position.
SegLong == 16
SegShort == 2

SegInk(rows, cols) ==
    {{Pixel(x, y) : y \in c1..c2} : x \in 0..(rows - 1), c1 \in 0..(cols - 1), c2 \in 0..(cols - 1)}
      \cup {{Pixel(x, y) : x \in r1..r2} : y \in 0..(cols - 1), r1 \in 0..(rows - 1), r2 \in 0..(rows - 1)}

InitSeg ==
    /\ \E d \in {<<SegLong, SegShort>>, <<SegShort, SegLong>>} :
        \E ink \in SegInk(d[1], d[2]) \ {{}}, color \in InkColors :
          /\ is_white_ = Image(Grid(d[1], d[2], ink, color))
          /\ start \in Pixels(d[1], d[2])
    /\ pc = "call"
    /\ queue = <<>> /\ used = {} /\ black_pixels = <<>>
    /\ white = 0 /\ black = 1 /\ popped = <<>>
    /\ NoScan /\ NoIsect /\ NoNb

SpecSeg == InitSeg /\ [][NextCall]_vars

----------------------------------------------------------------------------
(* main: the strided scan, the deduplication and the count *)

MaxRows == 26
MaxCols == 11
MaxInk == 3

PipeRows == {0, 1, 17, MaxRows}
PipeCols == {1, 4, MaxCols}
PipeSites == {Pixel(6, 1), Pixel(11, 3), Pixel(16, 1), Pixel(11, 1), Pixel(1, 6), Pixel(5, 5)}

Init ==
    /\ \E r \in PipeRows, c \in PipeCols :
        \E ink \in {s \in SUBSET PipeSites : Cardinality(s) <= MaxInk}, color \in InkColors :
          is_white_ = Image(Grid(r, c, ink, color))
    /\ pc = "outer"
    /\ NoScan /\ NoFill /\ NoIsect /\ NoNb

\* line 215: the test i < image.GetRows(); line 225 when it fails
ScanOuter ==
    /\ pc = "outer"
    /\ IF i < GetRows
       THEN /\ j' = 0
            /\ pc' = "inner"
            /\ UNCHANGED <<i, is_bad_pixel>>
       ELSE /\ is_bad_pixel' = [k \in 1..Len(potential_intersections) |-> FALSE]
            /\ i' = 0
            /\ j' = 1
            /\ pc' = "dedup"
    /\ UNCHANGED <<is_white_, potential_intersections, intersections_count, cout,
                   fillVars, isectVars, nbVars>>

\* line 216: the test j < image.GetColumns(); i += STEP when it fails
ScanInner ==
    /\ pc = "inner"
    /\ IF j < GetColumns
       THEN /\ pc' = "body"
            /\ UNCHANGED i
       ELSE /\ i' = i + STEP
            /\ pc' = "outer"
    /\ UNCHANGED <<is_white_, j, potential_intersections, is_bad_pixel,
                   intersections_count, cout, fillVars, isectVars, nbVars>>

\* lines 217-222, then j += STEP
ScanBody ==
    /\ pc = "body"
    /\ \E g1 \in Garbage(Pixel(i, j)), g2 \in Garbage(Pixel(i, j)) :
          IF IsWhite(i, j, g1)
          THEN /\ IsIntersection(Pixel(i, j), g2)
               /\ IF result'
                  THEN /\ potential_intersections' = Append(potential_intersections, Pixel(i, j))
                       /\ i' = i + ROW_JUMP
                  ELSE UNCHANGED <<potential_intersections, i>>
          ELSE UNCHANGED <<potential_intersections, i, fillVars, isectVars>>
    /\ j' = j + STEP
    /\ pc' = "inner"
    /\ UNCHANGED <<is_white_, is_bad_pixel, intersections_count, cout, nbVars>>

\* The read of line 217 outside the vectors, or the store of line 98 that follows
\* it, ends the process.
Fault ==
    /\ pc = "body"
    /\ ~IsCorrect(i, j)
    /\ pc' = "fault"
    /\ UNCHANGED <<is_white_, scanVars, fillVars, isectVars, nbVars>>

\* lines 227-231: one pair (i, j)
DedupInner ==
    /\ pc = "dedup"
    /\ i < Len(potential_intersections)
    /\ j < Len(potential_intersections)
    /\ is_bad_pixel' =
          IF AreSimilar(potential_intersections[i + 1], potential_intersections[j + 1])
          THEN [is_bad_pixel EXCEPT ![j + 1] = TRUE]
          ELSE is_bad_pixel
    /\ j' = j + 1
    /\ UNCHANGED <<is_white_, pc, i, potential_intersections, intersections_count, cout,
                   fillVars, isectVars, nbVars>>

\* lines 226-227: the inner loop is over, i++ and j = i + 1
DedupOuter ==
    /\ pc = "dedup"
    /\ i < Len(potential_intersections)
    /\ j >= Len(potential_intersections)
    /\ i' = i + 1
    /\ j' = i + 2
    /\ UNCHANGED <<is_white_, pc, potential_intersections, is_bad_pixel,
                   intersections_count, cout, fillVars, isectVars, nbVars>>

\* lines 234-239
RECURSIVE CountGood(_, _, _)
CountGood(flags, k, count) ==
    IF k > Len(flags) THEN count
    ELSE CountGood(flags, k + 1, IF ~flags[k] THEN count + 1 ELSE count)

\* lines 234-243: the count and its output
Count ==
    /\ pc = "dedup"
    /\ i >= Len(potential_intersections)
    /\ intersections_count' = CountGood(is_bad_pixel, 1, 0)
    /\ cout' = Append(cout, intersections_count')
    /\ pc' = "done"
    /\ UNCHANGED <<is_white_, i, j, potential_intersections, is_bad_pixel,
                   fillVars, isectVars, nbVars>>

Next == ScanOuter \/ ScanInner \/ ScanBody \/ Fault \/ DedupInner \/ DedupOuter \/ Count

Spec == Init /\ [][Next]_vars

----------------------------------------------------------------------------
(* The deduplication on any candidate list *)

MaxCands == 3
CandPixels == {Pixel(x, y) : x \in {0, 3, 5, 8}, y \in {0, 4, 5}}

InitDedup ==
    /\ potential_intersections \in UNION {[1..n -> CandPixels] : n \in 0..MaxCands}
    /\ is_bad_pixel = [k \in 1..Len(potential_intersections) |-> FALSE]
    /\ i = 0
    /\ j = 1
    /\ pc = "dedup"
    /\ is_white_ = <<>>
    /\ intersections_count = 0
    /\ cout = <<>>
    /\ NoFill /\ NoIsect /\ NoNb

NextDedup == DedupInner \/ DedupOuter \/ Count

SpecDedup == InitDedup /\ [][NextDedup]_vars

----------------------------------------------------------------------------
(* Properties *)

Range(seq) == {seq[k] : k \in 1..Len(seq)}

NoDuplicates(seq) == Cardinality(Range(seq)) = Len(seq)

InGrid(p) == p.x >= 0 /\ p.x < GetRows /\ p.y >= 0 /\ p.y < GetColumns

\* both coordinate differences below 5
Near(p, q) ==
    /\ p.x - q.x < 5 /\ q.x - p.x < 5
    /\ p.y - q.y < 5 /\ q.y - p.y < 5

RowOf(p) == p.x
ColOf(p) == p.y

\* the first pixel of seq, in its order, whose key is the least / the greatest
FirstMin(seq, Key(_)) ==
    seq[CHOOSE k \in 1..Len(seq) :
          /\ \A m \in 1..Len(seq) : Key(seq[m]) >= Key(seq[k])
          /\ \A m \in 1..(k - 1) : Key(seq[m]) > Key(seq[k])]

FirstMax(seq, Key(_)) ==
    seq[CHOOSE k \in 1..Len(seq) :
          /\ \A m \in 1..Len(seq) : Key(seq[m]) <= Key(seq[k])
          /\ \A m \in 1..(k - 1) : Key(seq[m]) < Key(seq[k])]

\* pixels of minimum row, maximum row, minimum column, maximum column
Extremals(seq) ==
    <<FirstMin(seq, RowOf), FirstMax(seq, RowOf), FirstMin(seq, ColOf), FirstMax(seq, ColOf)>>

\* C1: every pixel read IsWhite(x, y), by the scan of main (also after the 20-row
\* jump) and by every flood fill, has 0 <= x < rows and 0 <= y < columns.
C1_ReadsInBounds ==
    /\ pc = "body" => InGrid(Pixel(i, j))
    /\ \A p \in Range(popped) : InGrid(p)

\* C2: on an image whose stroke pixels form a centred "+" (arms of 15 pixels or
\* more, bars 1 to 3 pixels thick) IsIntersection returns true for a background
\* seed near the crossing.
C2_PlusIsJunction ==
    (pc = "returned" /\ is_white_[start.x + 1][start.y + 1]) => result = TRUE

C2_Witness ==
    /\ pc = "returned"
    /\ is_white_[start.x + 1][start.y + 1]
    /\ result = TRUE
    /\ Cardinality(Strokes) >= 2 * (2 * 15 + 1) - 1
    /\ Range(black_pixels) = Strokes

\* C3: on an image whose stroke pixels form one straight segment, horizontal or
\* vertical, IsIntersection returns false for every background seed.
C3_SegmentNotJunction ==
    (pc = "returned" /\ is_white_[start.x + 1][start.y + 1]) => result = FALSE

\* C4: after the deduplication, candidate j is marked exactly when an earlier
\* candidate is near it, the first candidate is never marked, the count is the
\* number of unmarked candidates, and two candidates count as 1 when near and as
\* 2 otherwise.
C4_Dedup ==
    pc = "done" =>
        LET p == potential_intersections
            n == Len(p)
        IN  /\ Len(is_bad_pixel) = n
            /\ \A b \in 1..n : is_bad_pixel[b] <=> \E a \in 1..(b - 1) : Near(p[a], p[b])
            /\ n >= 1 => ~is_bad_pixel[1]
            /\ intersections_count = Cardinality({k \in 1..n : ~is_bad_pixel[k]})
            /\ cout = <<intersections_count>>
            /\ n = 2 => intersections_count = IF Near(p[1], p[2]) THEN 1 ELSE 2

\* three candidates, the third suppressed by the second, itself suppressed
C4_Witness ==
    /\ pc = "done"
    /\ Len(potential_intersections) = 3
    /\ is_bad_pixel = <<FALSE, TRUE, TRUE>>
    /\ ~Near(potential_intersections[1], potential_intersections[3])
    /\ intersections_count = 1

\* C5: on an image without stroke pixel, the zero-size grid included, main reads
\* no pixel out of bounds, records no candidate, runs to its end and prints 0;
\* on the zero-size grid the scan loop body never runs.
C5_EmptyImage ==
    Strokes = {} =>
        /\ pc \in {"outer", "inner", "body", "dedup", "done"}
        /\ pc = "inner" => GetRows > 0
        /\ pc = "body" => InGrid(Pixel(i, j))
        /\ \A p \in Range(popped) : InGrid(p)
        /\ potential_intersections = <<>>
        /\ pc = "done" => cout = <<0>>
        /\ GetRows = 0 => pc \notin {"inner", "body"}

C5_Witness ==
    /\ Strokes = {}
    /\ GetRows = MaxRows
    /\ pc = "done"
    /\ cout = <<0>>
    /\ used = AllPixels
    /\ result = FALSE

\* C6: IsIntersection returns true exactly when no two of the four extremal
\* pixels of the flood-fill output (minimum row, maximum row, minimum column,
\* maximum column) are near each other.
C6_RuleOnExtremals ==
    (pc = "returned" /\ black_pixels # <<>>) =>
        (result <=> \A a, b \in 1..4 :
                       a < b => ~Near(Extremals(black_pixels)[a], Extremals(black_pixels)[b]))

\* C7: in the flood fill every queued pixel is marked, no pixel is queued or
\* taken from the queue twice, and the loop runs at most rows x columns times.
C7_VisitedOnce ==
    /\ Range(queue) \subseteq used
    /\ NoDuplicates(queue)
    /\ NoDuplicates(popped)
    /\ Range(queue) \cap Range(popped) = {}
    /\ used = Range(queue) \cup Range(popped)
    /\ Len(popped) <= GetRows * GetColumns

C7_Witness ==
    /\ pc = "returned"
    /\ GetRows >= 2 /\ GetColumns >= 2
    /\ Len(popped) = GetRows * GetColumns

\* C8: GetNeighbours(x, y) returns those of (x+1,y), (x,y+1), (x-1,y), (x,y-1)
\* that lie in [0, rows) x [0, columns), each once, in that order.
C8_Neighbours ==
    pc = "nb_done" =>
        /\ neighbours = SelectSeq(<<Pixel(pixel.x + 1, pixel.y), Pixel(pixel.x, pixel.y + 1),
                                    Pixel(pixel.x - 1, pixel.y), Pixel(pixel.x, pixel.y - 1)>>,
                                  InGrid)
        /\ NoDuplicates(neighbours)

\* a pixel on the last row with neighbours on three sides
C8_Witness ==
    /\ pc = "nb_done"
    /\ pixel.x = GetRows - 1
    /\ Len(neighbours) = 3

\* C9: the counters stay at white = 0 and black = 1, the loop ends only on an
\* empty queue, and on return every pixel is visited and the output holds every
\* stroke pixel of the image once and no background pixel, whatever the seed.
C9_WholeImage ==
    /\ white = 0
    /\ black = 1
    /\ (pc = "bfs" /\ ~BFSContinue(BFSState)) => queue = <<>>
    /\ pc = "returned" =>
          /\ queue = <<>>
          /\ used = AllPixels
          /\ Range(black_pixels) = Strokes
          /\ NoDuplicates(black_pixels)

\* a background seed, stroke pixels far from it, and more loop iterations than
\* MAX_ITERATION_COUNT
C9_Witness ==
    /\ pc = "returned"
    /\ start \notin Strokes
    /\ Cardinality(Strokes) >= 2
    /\ \E p \in Strokes : Abs(p.x - start.x) + Abs(p.y - start.y) >= 3
    /\ Len(popped) > MAX_ITERATION_COUNT
    /\ Range(black_pixels) = Strokes

\* C10: during the scan the cursors are multiples of 5 and the raw candidates
\* are strictly increasing in (row, column) order; no two raw candidates are
\* near each other, the deduplication marks none, and the printed count is the
\* number of raw candidates.
C10_ScanOrder ==
    LET p == potential_intersections
    IN  /\ pc \in {"outer", "inner", "body"} => (i % 5 = 0 /\ j % 5 = 0)
        /\ \A a, b \in 1..Len(p) :
              a < b => (p[a].x < p[b].x \/ (p[a].x = p[b].x /\ p[a].y < p[b].y))
        /\ \A a, b \in 1..Len(p) : a < b => ~Near(p[a], p[b])
        /\ \A k \in 1..Len(is_bad_pixel) : ~is_bad_pixel[k]
        /\ pc = "done" => cout = <<Len(p)>>

\* two candidates found without any read out of bounds
C10_Witness ==
    /\ pc = "done"
    /\ Len(potential_intersections) = 2
    /\ \A k \in 1..2 : InGrid(potential_intersections[k])
    /\ cout = <<2>>

====
